---- MODULE Spec2Model ----
(***************************************************************************)
(* The three scripts of the repository as state machines:                  *)
(*   rent_gpu.py        search offers, sort by dph, try to rent in order   *)
(*   wait_for_gpu.py    poll "show instances" until the target is running  *)
(*   wait_for_gpu_2.py  the same, and print the SSH host and port          *)
(* The scripts are separate processes that share no state, so each has its *)
(* own specification over its own variables.                               *)
(*                                                                         *)
(* The external CLI is the environment.  One subprocess.run call either    *)
(* raises (the binary cannot be run) or returns a standard output, which   *)
(* is either text json.loads rejects or a JSON value.  A value is a record *)
(* [t, v]: t names the JSON type and v carries the content.  A JSON object *)
(* is a function from its keys to their values, as a Python dict is, so a  *)
(* missing key is a key outside DOMAIN.                                    *)
(***************************************************************************)
EXTENDS Integers, Sequences, FiniteSets, TLC

\* ---------------------------------------------------------------- bounds
\* Longest offer array the search step returns.
MaxOffers == 3
\* Longest instance array "show instances" returns.
MaxInsts == 2

\* ------------------------------------------------------ program constants
\* rent_gpu.py:55   x.get('dph', 999)
MissingDph == 999
\* wait_for_gpu.py:16
TargetA == 28600842
\* wait_for_gpu_2.py:7
instance_id == 28601048

\* ------------------------------------------------------------ JSON values
Restrict(r, D) == [k \in D |-> r[k]]

\* Every dict whose keys are a subset of the fields of Full, with the
\* values Full allows for them.
DictsOver(Full, Keys) == UNION {{Restrict(r, D) : r \in Full} : D \in SUBSET Keys}

JRaise == [t |-> "raise", v |-> <<>>]     \* subprocess.run raised
JText == [t |-> "text", v |-> <<>>]       \* stdout that is not JSON
JNull == [t |-> "null", v |-> <<>>]       \* the JSON value null
JNumber == [t |-> "number", v |-> <<>>]   \* a JSON number (as an array element)
JString == [t |-> "string", v |-> <<>>]   \* a JSON string (stdout, or a key of an object)
JObject(d) == [t |-> "object", v |-> d]
JArray(s) == [t |-> "array", v |-> s]

\* The JSON string "\ud800": json.loads accepts a lone surrogate, and print
\* raises UnicodeEncodeError when the text of a value it formats holds one
\* (stdout cannot encode it).
Surrogate == "U+D800"
Unprintable(val) == ToString(val) = ToString(Surrogate)

\* ------------------------------------------------------------ rent_gpu.py
\* The values of a dph field, by what "<" of line 55 does with them.  A
\* number carries its amount in whole dollars per hour; NaN is the float
\* json.loads reads from the token NaN; a string carries its place in the
\* order of strings, and SurStr is the string Surrogate, which sorts behind
\* the others; null stands for every value that "<" does not accept at all
\* (None, an object).
Num(n) == [k |-> "num", n |-> n]
NaN == [k |-> "nan", n |-> 0]
Null == [k |-> "null", n |-> 0]
Str(n) == [k |-> "str", n |-> n]
SurStr == [k |-> "sur", n |-> 2]

\* Offer objects: id and dph are each present or missing.  Prices are whole
\* dollars per hour, one of them above the sentinel of line 55; a dph can
\* also be NaN, null or a string.  Two offers carry the third field line 61
\* prints, geolocation.
DphValues == {Num(3), Num(5), Num(1000), NaN, Null, Str(1), SurStr}
OfferDicts ==
    DictsOver([id : {1, 2}, dph : DphValues], {"id", "dph"})
        \cup {[id |-> 1, dph |-> Num(3), geolocation |-> g] : g \in {"US", Surrogate}}
OfferElems == {JObject(d) : d \in OfferDicts} \cup {JNumber}

\* What one run of "vastai search offers ... --raw" can give besides an
\* array of at most MaxOffers elements of OfferElems.
SearchFailures ==
    {JRaise, JText, JNull, JString, JObject(<<>>), JObject([error |-> "x"])}

\* The standard output of "vastai create instance", by the success markers
\* of line 41 that occur in it; the call can also raise.
Markers == {"started", "'success': True"}
CreateOutputs == [t : {"ran"}, v : SUBSET Markers] \cup {JRaise}

EmptyList == JArray(<<>>)

\* get_offers, mutated: the parse error path returns None instead of [].
get_offers_none(out) ==
    IF out.t = "raise" THEN EmptyList
    ELSE IF out.t = "text" THEN JNull
    ELSE out

\* get_offers (lines 7-28): the value it returns for a search outcome.
get_offers(out) ==
    IF out.t = "raise" THEN EmptyList          \* except Exception: return []
    ELSE IF out.t = "text" THEN EmptyList      \* except JSONDecodeError: return []
    ELSE out                                   \* return json.loads(stdout)

\* len(offers) of line 52 is defined for lists, dicts and strings.
HasLen(val) == val.t \in {"array", "object", "string"}

\* rent_instance, mutated: only the first marker counts as success.
rent_instance_started_only(stdout) == "started" \in stdout

\* rent_instance (lines 40-47): the boolean it returns for a standard output.
rent_instance(stdout) == ("started" \in stdout) \/ ("'success': True" \in stdout)

\* The print of line 61 raises UnicodeEncodeError for an offer x whose id,
\* dph or geolocation is a string that stdout cannot encode.
print_raises(x) ==
    \/ "id" \in DOMAIN x /\ Unprintable(x.id)
    \/ "dph" \in DOMAIN x /\ x.dph.k = "sur"
    \/ "geolocation" \in DOMAIN x /\ Unprintable(x.geolocation)

\* lambda x: x.get('dph', 999) of line 55, for a dict x.
DphKey(x) == IF "dph" \in DOMAIN x THEN x.dph ELSE Num(MissingDph)

\* The key function raises AttributeError on an element that is no dict.
KeyRaises(s) == \E i \in 1..Len(s) : s[i].t # "object"

\* a < b raises TypeError unless both keys are numbers (NaN is a float) or
\* both are strings.
CompareRaises(a, b) ==
    ~ \/ a.k \in {"num", "nan"} /\ b.k \in {"num", "nan"}
      \/ a.k \in {"str", "sur"} /\ b.k \in {"str", "sur"}

\* a < b for two keys that can be compared: every comparison with NaN is
\* false.
KeyLt(a, b) == a.k # "nan" /\ b.k # "nan" /\ a.n < b.n

\* The sort compares every element with some other one, and the first
\* comparison across the kinds of key raises: a list of two or more
\* elements raises TypeError when two of its keys cannot be compared.
SortRaises(s) ==
    \E i, j \in 1..Len(s) :
        i # j /\ CompareRaises(DphKey(s[i].v), DphKey(s[j].v))

\* The element at i sorts before the element at j.
Lt(s, i, j) == KeyLt(DphKey(s[i].v), DphKey(s[j].v))

RECURSIVE run_end(_, _, _)
\* count_run of list.sort: the end of the run that begins the list and
\* reaches i, strictly descending (desc) or not descending.
run_end(s, desc, i) ==
    IF i = Len(s) THEN i
    ELSE IF Lt(s, i + 1, i) = desc THEN run_end(s, desc, i + 1)
    ELSE i

\* A descending run is reversed in place.
reverse_slice(s, n) == [i \in 1..Len(s) |-> IF i <= n THEN s[n + 1 - i] ELSE s[i]]

RECURSIVE bisect(_, _, _, _)
\* binarysort of list.sort: the place in the sorted s[1..start-1] where
\* s[start] goes, found by halving l..r.
bisect(s, start, l, r) ==
    IF l >= r THEN l
    ELSE IF Lt(s, start, l + (r - l) \div 2)
    THEN bisect(s, start, l, l + (r - l) \div 2)
    ELSE bisect(s, start, l + (r - l) \div 2 + 1, r)

\* s[start] moved to place l, the elements between shifted up by one.
move_to(s, start, l) ==
    [i \in 1..Len(s) |->
        IF i < l \/ i > start THEN s[i]
        ELSE IF i = l THEN s[start]
        ELSE s[i - 1]]

\* The one element of a set.  An operator evaluates its argument wherever
\* it is used and a bound variable has its value once, so the steps of the
\* sort hand their result on through {x}.
The(S) == CHOOSE r \in S : TRUE

RECURSIVE binarysort(_, _)
\* binarysort of list.sort: s[1..start-1] is sorted; insert the rest.
binarysort(s, start) ==
    IF start > Len(s) THEN s
    ELSE The({binarysort(t, start + 1) :
                t \in {move_to(s, start, bisect(s, start, 1, start))}})

\* list.sort(key=...) of line 55 for keys that can be compared, as CPython
\* sorts a list of fewer than 64 elements: the run that begins the list
\* (reversed if it descends), then binary insertion of the other elements.
\* The result is ascending and stable unless a key is NaN.
sort_by_dph(s) ==
    IF Len(s) < 2 THEN s
    ELSE IF Lt(s, 2, 1)
    THEN The({The({binarysort(t, n + 1) : t \in {reverse_slice(s, n)}}) :
                n \in {run_end(s, TRUE, 2)}})
    ELSE The({binarysort(s, n + 1) : n \in {run_end(s, FALSE, 2)}})

VARIABLES
    pc,         \* position in main: "search", "sort", "loop", "sleep", "done"
    status,     \* "run", "exit0", "exit1", or "raised" (uncaught exception)
    searchOut,  \* the outcome of the search subprocess (history)
    found,      \* the value get_offers returned (history)
    offers,     \* the variable offers of main
    idx,        \* position of the for loop of line 57 in offers
    attempts,   \* the offers passed to rent_instance, in order (history)
    outcomes,   \* the outcome of each create-instance call (history)
    searches,   \* the number of search subprocesses started (history)
    evR         \* the last two of the events "create" and "sleep" (history)

rentVars == <<pc, status, searchOut, found, offers, idx, attempts, outcomes,
              searches, evR>>

\* The last two events of a script, after event e.
Push(ev, e) == IF Len(ev) < 2 THEN Append(ev, e) ELSE <<ev[2], e>>

\* ------------------------------------------ wait_for_gpu.py, wait_for_gpu_2.py
\* Instance objects: each of the four fields is present or missing.  The two
\* ids are the targets of the two scripts, so each script sees its own
\* target and a foreign instance.
InstDicts ==
    DictsOver([id : {TargetA, instance_id},
               cur_state : {"running", "loading", Surrogate},
               ssh_host : {"h1", "h2", Surrogate}, ssh_port : {22}],
              {"id", "cur_state", "ssh_host", "ssh_port"})
InstElems == {JObject(d) : d \in InstDicts} \cup {JNumber}

\* What one run of "vastai show instances --raw" can give besides an array
\* of at most MaxInsts elements of InstElems.
ShowFailures == {JRaise, JText, JNull, JObject(<<>>), JObject([error |-> "x"])}

\* The items "for inst in data" visits: the elements of a list, the keys of
\* a dict (strings).
IterItems(data) ==
    IF data.t = "array" THEN data.v
    ELSE [i \in 1..Cardinality(DOMAIN data.v) |-> JString]

Raised == [k |-> "raise", i |-> 0]

RECURSIVE scan(_, _, _)
\* The for loop of check_status (lines 15-17 in both scripts) from item i:
\* it raises, ends without a match, or reaches the return at item i.
scan(items, i, target) ==
    IF i > Len(items) THEN [k |-> "end", i |-> 0]
    ELSE IF items[i].t # "object" THEN Raised            \* TypeError
    ELSE IF "id" \notin DOMAIN items[i].v THEN Raised    \* KeyError
    ELSE IF items[i].v.id = target THEN [k |-> "match", i |-> i]
    ELSE scan(items, i + 1, target)

\* The try block of check_status up to the return inside the loop.
try_block(out, target) ==
    IF out.t = "raise" THEN Raised                       \* subprocess.run
    ELSE IF out.t = "text" THEN Raised                   \* json.loads
    ELSE IF out.t \notin {"array", "object"} THEN Raised \* not iterable
    ELSE scan(IterItems(out), 1, target)

\* check_status of wait_for_gpu.py (lines 6-20): the state it returns.
check_status_A(out) ==
    LET b == try_block(out, TargetA)
    IN  IF b.k = "match" /\ "cur_state" \in DOMAIN IterItems(out)[b.i].v
        THEN IterItems(out)[b.i].v.cur_state
        ELSE "unknown"                  \* KeyError caught, or no match

\* check_status of wait_for_gpu_2.py (lines 9-20): <<inst>> for the record
\* it returns, <<>> for None.
check_status_B(out) ==
    LET b == try_block(out, instance_id)
    IN  IF b.k = "match" THEN <<IterItems(out)[b.i].v>> ELSE <<>>

\* f"{d.get(k)}": the text an f-string prints for a field of a dict: None
\* for a missing key, decimal digits for a number (ssh_port is the one
\* numeric field that is printed), the string itself otherwise.
py_str_get(d, k) ==
    IF k \notin DOMAIN d THEN "None"
    ELSE IF k = "ssh_port" THEN ToString(d[k])
    ELSE d[k]

VARIABLES
    pcA,        \* wait_for_gpu.py: "poll", "sleep", "done", "raised"
    stateA,     \* its variable state ("" before the first poll)
    shownA,     \* the outcome of show instances in the current cycle (history)
    outA,       \* the lines printed in the current cycle
    pcB,        \* wait_for_gpu_2.py: "poll", "sleep", "done", "raised"
    shownB,     \* the outcome of show instances in the current cycle (history)
    outB,       \* the lines printed in the current cycle
    evA,        \* wait_for_gpu.py: the last two of "show" and "sleep" (history)
    evB         \* wait_for_gpu_2.py: the last two of "show" and "sleep" (history)

pollAVars == <<pcA, stateA, shownA, outA, evA>>
pollBVars == <<pcB, shownB, outB, evB>>

vars == <<rentVars, pollAVars, pollBVars>>

NoValue == [t |-> "none", v |-> <<>>]

Init ==
    /\ pc = "search"
    /\ status = "run"
    /\ searchOut = NoValue
    /\ found = NoValue
    /\ offers = NoValue
    /\ idx = 0
    /\ attempts = <<>>
    /\ outcomes = <<>>
    /\ searches = 0
    /\ evR = <<>>
    /\ pcA = "poll"
    /\ stateA = ""
    /\ shownA = NoValue
    /\ outA = <<>>
    /\ pcB = "poll"
    /\ shownB = NoValue
    /\ outB = <<>>
    /\ evA = <<>>
    /\ evB = <<>>

\* main, lines 50-52: get_offers() and the print of len(offers).
search_offers(out) ==
    /\ searchOut' = out
    /\ searches' = searches + 1
    /\ found' = get_offers(out)
    /\ offers' = get_offers(out)
    /\ IF HasLen(get_offers(out))
       THEN pc' = "sort" /\ status' = status
       ELSE pc' = "done" /\ status' = "raised"          \* TypeError in len()

\* main, lines 50-52, for every outcome of the search subprocess.
Search ==
    /\ pc = "search"
    /\ \/ \E out \in SearchFailures : search_offers(out)
       \/ \E n \in 0..MaxOffers : \E s \in [1..n -> OfferElems] :
            search_offers(JArray(s))
    /\ UNCHANGED <<idx, attempts, outcomes, evR>>
    /\ UNCHANGED <<pollAVars, pollBVars>>

\* main, line 55: offers.sort(key=...).
Sort ==
    /\ pc = "sort"
    /\ IF offers.t # "array" \/ KeyRaises(offers.v) \/ SortRaises(offers.v)
       THEN /\ pc' = "done"                 \* AttributeError, TypeError
            /\ status' = "raised"
            /\ UNCHANGED <<offers, idx>>
       ELSE /\ offers' = JArray(sort_by_dph(offers.v))
            /\ idx' = 1
            /\ pc' = "loop"
            /\ status' = status
    /\ UNCHANGED <<searchOut, found, attempts, outcomes, searches, evR>>
    /\ UNCHANGED <<pollAVars, pollBVars>>

\* The loop body, mutated: a failed rental goes on to the next offer at once.
Attempt_no_sleep ==
    /\ pc = "loop"
    /\ idx <= Len(offers.v)
    /\ IF print_raises(offers.v[idx].v)
       THEN /\ pc' = "done"
            /\ status' = "raised"
            /\ UNCHANGED <<attempts, outcomes, evR, idx>>
       ELSE \E res \in CreateOutputs :
            /\ attempts' = Append(attempts, offers.v[idx].v)
            /\ outcomes' = Append(outcomes, res)
            /\ evR' = Push(evR, "create")
            /\ IF res.t = "raise"
               THEN pc' = "done" /\ status' = "raised" /\ idx' = idx
               ELSE IF rent_instance(res.v)
               THEN pc' = "done" /\ status' = "exit0" /\ idx' = idx
               ELSE pc' = "loop" /\ status' = status /\ idx' = idx + 1
    /\ UNCHANGED <<searchOut, found, offers, searches>>
    /\ UNCHANGED <<pollAVars, pollBVars>>

\* main, lines 57-67: one iteration up to the result of rent_instance.
Attempt ==
    /\ pc = "loop"
    /\ idx <= Len(offers.v)
    /\ IF print_raises(offers.v[idx].v)
       THEN /\ pc' = "done"                    \* UnicodeEncodeError, line 61
            /\ status' = "raised"
            /\ UNCHANGED <<attempts, outcomes, evR>>
       ELSE \E res \in CreateOutputs :
            /\ attempts' = Append(attempts, offers.v[idx].v)
            /\ outcomes' = Append(outcomes, res)
            /\ evR' = Push(evR, "create")
            /\ IF res.t = "raise"
               THEN pc' = "done" /\ status' = "raised"  \* no try in rent_instance
               ELSE IF rent_instance(res.v)
               THEN pc' = "done" /\ status' = "exit0"   \* sys.exit(0)
               ELSE pc' = "sleep" /\ status' = status
    /\ UNCHANGED <<searchOut, found, offers, idx, searches>>
    /\ UNCHANGED <<pollAVars, pollBVars>>

\* The delay, mutated: the loop stays on the offer that failed.
Sleep_stay ==
    /\ pc = "sleep"
    /\ pc' = "loop"
    /\ idx' = idx
    /\ evR' = Push(evR, "sleep")
    /\ UNCHANGED <<status, searchOut, found, offers, attempts, outcomes, searches>>
    /\ UNCHANGED <<pollAVars, pollBVars>>

\* main, line 69: time.sleep(1), then the next offer.
Sleep ==
    /\ pc = "sleep"
    /\ pc' = "loop"
    /\ idx' = idx + 1
    /\ evR' = Push(evR, "sleep")
    /\ UNCHANGED <<status, searchOut, found, offers, attempts, outcomes, searches>>
    /\ UNCHANGED <<pollAVars, pollBVars>>

\* The end of the loop, mutated: with no offers at all the search is retried.
Exhausted_retry ==
    /\ pc = "loop"
    /\ idx > Len(offers.v)
    /\ IF Len(offers.v) = 0
       THEN pc' = "search" /\ status' = status
       ELSE pc' = "done" /\ status' = "exit1"
    /\ UNCHANGED <<searchOut, found, offers, idx, attempts, outcomes, searches, evR>>
    /\ UNCHANGED <<pollAVars, pollBVars>>

\* main, lines 71-72: the loop ran out of offers.
Exhausted ==
    /\ pc = "loop"
    /\ idx > Len(offers.v)
    /\ pc' = "done"
    /\ status' = "exit1"
    /\ UNCHANGED <<searchOut, found, offers, idx, attempts, outcomes, searches, evR>>
    /\ UNCHANGED <<pollAVars, pollBVars>>

\* wait_for_gpu.py, lines 24-28: one cycle, given the outcome of the poll.
poll_A(out) ==
    /\ shownA' = out
    /\ evA' = Push(evA, "show")
    /\ stateA' = check_status_A(out)
    /\ IF Unprintable(check_status_A(out))
       THEN /\ outA' = <<>>                    \* UnicodeEncodeError, line 25
            /\ pcA' = "raised"
       ELSE IF check_status_A(out) = "running"
       THEN /\ outA' = <<<<"Current state", check_status_A(out)>>,
                         <<"Instance is RUNNING!">>>>
            /\ pcA' = "done"                             \* break
       ELSE /\ outA' = <<<<"Current state", check_status_A(out)>>>>
            /\ pcA' = "sleep"

\* wait_for_gpu.py, lines 23-28: one poll and the test of its state.
PollA ==
    /\ pcA = "poll"
    /\ \/ \E out \in ShowFailures : poll_A(out)
       \/ \E n \in 0..MaxInsts : \E s \in [1..n -> InstElems] : poll_A(JArray(s))
    /\ UNCHANGED <<rentVars, pollBVars>>

\* wait_for_gpu.py, line 29: time.sleep(5), then the next cycle.
SleepA ==
    /\ pcA = "sleep"
    /\ pcA' = "poll"
    /\ shownA' = NoValue
    /\ outA' = <<>>
    /\ evA' = Push(evA, "sleep")
    /\ UNCHANGED <<stateA, rentVars, pollBVars>>

\* "if inst:" of line 25: None and the empty dict are falsy.
Truthy(inst) == inst # <<>> /\ DOMAIN inst[1] # {}

\* The test of the state, mutated: a record without cur_state counts as
\* running.
is_running_missing(d) == "cur_state" \notin DOMAIN d \/ d.cur_state = "running"

\* inst.get('cur_state') == "running" of lines 26 and 28.
is_running(d) == "cur_state" \in DOMAIN d /\ d.cur_state = "running"

\* A print of wait_for_gpu_2.py raises UnicodeEncodeError: line 27 for the
\* state of the record found, line 31 for the ssh_host of a running one.
raises_B(inst) ==
    /\ Truthy(inst)
    /\ \/ "cur_state" \in DOMAIN inst[1] /\ Unprintable(inst[1].cur_state)
       \/ /\ is_running(inst[1])
          /\ \/ "ssh_host" \in DOMAIN inst[1] /\ Unprintable(inst[1].ssh_host)
             \/ "ssh_port" \in DOMAIN inst[1] /\ Unprintable(inst[1].ssh_port)

\* The lines one cycle of wait_for_gpu_2.py prints (lines 25-34), up to
\* the print that raises.
LinesB(inst) ==
    IF ~Truthy(inst) THEN <<<<"Instance not found in list yet...">>>>
    ELSE IF "cur_state" \in DOMAIN inst[1] /\ Unprintable(inst[1].cur_state)
    THEN <<>>
    ELSE IF is_running(inst[1])
    THEN IF raises_B(inst)
         THEN <<<<"Current state", py_str_get(inst[1], "cur_state")>>,
                <<"Instance is RUNNING!">>>>
         ELSE <<<<"Current state", py_str_get(inst[1], "cur_state")>>,
                <<"Instance is RUNNING!">>,
                <<"SSH", py_str_get(inst[1], "ssh_host"),
                  py_str_get(inst[1], "ssh_port")>>>>
    ELSE <<<<"Current state", py_str_get(inst[1], "cur_state")>>>>

\* wait_for_gpu_2.py, lines 24-34: one cycle, given the outcome of the poll.
poll_B(out) ==
    /\ shownB' = out
    /\ evB' = Push(evB, "show")
    /\ outB' = LinesB(check_status_B(out))
    /\ IF raises_B(check_status_B(out))
       THEN pcB' = "raised"
       ELSE IF Truthy(check_status_B(out)) /\ is_running(check_status_B(out)[1])
       THEN pcB' = "done"                                \* break
       ELSE pcB' = "sleep"

\* wait_for_gpu_2.py, lines 23-34: one poll and what it prints.
PollB ==
    /\ pcB = "poll"
    /\ \/ \E out \in ShowFailures : poll_B(out)
       \/ \E n \in 0..MaxInsts : \E s \in [1..n -> InstElems] : poll_B(JArray(s))
    /\ UNCHANGED <<rentVars, pollAVars>>

\* wait_for_gpu_2.py, line 36: time.sleep(5), then the next cycle.
SleepB ==
    /\ pcB = "sleep"
    /\ pcB' = "poll"
    /\ shownB' = NoValue
    /\ outB' = <<>>
    /\ evB' = Push(evB, "sleep")
    /\ UNCHANGED <<rentVars, pollAVars>>

Next == Search \/ Sort \/ Attempt \/ Sleep \/ Exhausted

Spec == Init /\ [][Next]_vars

NextA == PollA \/ SleepA

SpecA == Init /\ [][NextA]_vars

NextB == PollB \/ SleepB

SpecB == Init /\ [][NextB]_vars

\* rent_gpu.py is a sequential program: the interpreter takes every step of
\* its own that is possible (the sort, the delay of one second, the exit).
\* A step that waits for the CLI (subprocess.run without timeout, lines 16
\* and 40) is taken when the CLI exits, which it need not do: a run can stay
\* in the search or in a create call for ever.
SpecLive == Init /\ [][Next]_vars /\ WF_vars(Sort \/ Sleep \/ Exhausted)

\* One run is one script: a script takes steps only while the other two
\* have not started.
NextScripts ==
    \/ evA = <<>> /\ evB = <<>> /\ Next
    \/ pc = "search" /\ evB = <<>> /\ NextA
    \/ pc = "search" /\ evA = <<>> /\ NextB

SpecScripts == Init /\ [][NextScripts]_vars

\* The two pollers side by side on one sequence of responses.  Each script has
\* its own target literal (lines 16 and 7), so "the same response for the same
\* target" is a response for wait_for_gpu.py and the same response with the
\* two target ids exchanged for wait_for_gpu_2.py.
SwapId(d) ==
    IF "id" \notin DOMAIN d THEN d
    ELSE [d EXCEPT !.id = IF @ = TargetA THEN instance_id
                          ELSE IF @ = instance_id THEN TargetA ELSE @]

Retarget(out) ==
    IF out.t # "array" \/ out.v = <<>> THEN out
    ELSE JArray([i \in 1..Len(out.v) |->
                    IF out.v[i].t = "object" THEN JObject(SwapId(out.v[i].v))
                    ELSE out.v[i]])

\* Both scripts run their next poll (lines 23-28 and 23-34) on one response.
PollSame ==
    /\ pcA = "poll"
    /\ pcB = "poll"
    /\ \/ \E out \in ShowFailures : poll_A(out) /\ poll_B(Retarget(out))
       \/ \E n \in 0..MaxInsts : \E s \in [1..n -> InstElems] :
            poll_A(JArray(s)) /\ poll_B(Retarget(JArray(s)))
    /\ UNCHANGED rentVars

\* A script that has not ended sleeps (lines 29 and 36) before the next poll.
SleepSame ==
    /\ pcA = "sleep" \/ pcB = "sleep"
    /\ pcA # "poll"
    /\ pcB # "poll"
    /\ IF pcA = "sleep"
       THEN /\ pcA' = "poll"
            /\ shownA' = NoValue
            /\ outA' = <<>>
            /\ evA' = Push(evA, "sleep")
            /\ UNCHANGED stateA
       ELSE UNCHANGED pollAVars
    /\ IF pcB = "sleep"
       THEN /\ pcB' = "poll"
            /\ shownB' = NoValue
            /\ outB' = <<>>
            /\ evB' = Push(evB, "sleep")
       ELSE UNCHANGED pollBVars
    /\ UNCHANGED rentVars

NextSame == PollSame \/ SleepSame

SpecSame == Init /\ [][NextSame]_vars

\* ------------------------------------------------------------------ claims
\* Vocabulary of the claims, stated on the histories and not on the code.
Priced(x) == "dph" \in DOMAIN x
HasPrice(x) == Priced(x) /\ x.dph.k = "num"
Price(x) == x.dph.n
ReportsSuccess(res) == res.t = "ran" /\ res.v # {}
ReportsFailure(res) == res.t = "ran" /\ res.v = {}
IsOfferList(val) == val.t = "array" /\ \A i \in 1..Len(val.v) : val.v[i].t = "object"
Terminated == status # "run"

\* C1 as stated: whenever offer X is attempted before offer Y in a run,
\* dph(X) <= dph(Y) (for the offers whose dph is a price), whatever order
\* the search returned.
C1_AttemptsInPriceOrder ==
    \A i, j \in 1..Len(attempts) :
        (i < j /\ HasPrice(attempts[i]) /\ HasPrice(attempts[j]))
            => Price(attempts[i]) <= Price(attempts[j])

\* C2 as stated: with a client that reports success for every create call,
\* the flow ends with exit 0 after exactly one attempt, for every offer list.
C2_Original ==
    (Terminated /\ IsOfferList(found) /\ \A i \in 1..Len(outcomes) : ReportsSuccess(outcomes[i]))
        => (status = "exit0" /\ Len(attempts) = 1)

\* attempts holds every element of s exactly once.
IsPermutationOf(att, s) ==
    /\ Len(att) = Len(s)
    /\ \E p \in [1..Len(s) -> 1..Len(s)] :
        /\ \A i, j \in 1..Len(s) : p[i] = p[j] => i = j
        /\ \A i \in 1..Len(s) : att[i] = s[p[i]].v

\* C3 as stated: with a client that reports failure for every create call,
\* the flow ends only with exit 1, and only after every retrieved offer has
\* been attempted exactly once, in ascending price order.
C3_AllFailuresTryEveryOffer ==
    (IsOfferList(found) /\ \A i \in 1..Len(outcomes) : ReportsFailure(outcomes[i]))
        => /\ Terminated => status = "exit1"
           /\ status = "exit1" =>
                /\ IsPermutationOf(attempts, found.v)
                /\ \A i, j \in 1..Len(attempts) :
                    (i < j /\ HasPrice(attempts[i]) /\ HasPrice(attempts[j]))
                        => Price(attempts[i]) <= Price(attempts[j])

\* C6 as stated: no error raises out of the flow, and the flow ends with a
\* non-zero status only after all offers were tried and none succeeded.
C6_ErrorsNeverEscape ==
    /\ status # "raised"
    /\ status = "exit1" =>
        /\ Len(attempts) = Len(offers.v)
        /\ \A i \in 1..Len(outcomes) : ~ReportsSuccess(outcomes[i])

\* C7: get_offers returns the empty list, and raises nothing, when the
\* search cannot be run or prints no JSON; it returns an offer array only
\* when the output is a JSON array, and then that array.
C7_GetOffersEmptyOnMalformed ==
    pc # "search" =>
        /\ searchOut.t \in {"raise", "text"} => (found = EmptyList /\ status # "raised")
        /\ (found.t = "array" /\ found.v # <<>>) => (searchOut.t = "array" /\ found = searchOut)
        /\ searchOut.t = "array" => found = searchOut

C7_Witness ==
    /\ pc = "sort"
    /\ searchOut = JText
    /\ found = EmptyList

\* C8: the flow exits 0 exactly when some create call reported success, and
\* a call that reported success is the last call of the run.
C8_ExitZeroIffLastAttemptSucceeded ==
    /\ status = "exit0" <=> \E i \in 1..Len(outcomes) : ReportsSuccess(outcomes[i])
    /\ \A i \in 1..Len(outcomes) : ReportsSuccess(outcomes[i]) => i = Len(outcomes)

C8_Witness ==
    /\ status = "exit0"
    /\ Len(outcomes) = MaxOffers
    /\ ReportsFailure(outcomes[1])
    /\ outcomes[Len(outcomes)] = [t |-> "ran", v |-> {"'success': True"}]

\* C10 as stated: no offer with a dph is attempted after an offer without.
C10_UnpricedOffersLast ==
    \A i, j \in 1..Len(attempts) :
        i < j => ~(~Priced(attempts[i]) /\ Priced(attempts[j]))
\* A record with the given id in state "running", anywhere in the response.
IsTarget(e, target) == e.t = "object" /\ "id" \in DOMAIN e.v /\ e.v.id = target
IsRunningTarget(e, target) ==
    IsTarget(e, target) /\ "cur_state" \in DOMAIN e.v /\ e.v.cur_state = "running"
HasRunningTarget(out, target) ==
    out.t = "array" /\ \E i \in 1..Len(out.v) : IsRunningTarget(out.v[i], target)

\* A script has ended: by break ("done") or by an uncaught exception.
Stopped(p) == p \in {"done", "raised"}

\* C4 as stated: wait_for_gpu_2.py ends at a poll exactly when the response
\* of that poll holds a record with the target id and cur_state "running".
C4_StopsExactlyOnRunningRecord ==
    /\ Stopped(pcB) => HasRunningTarget(shownB, instance_id)
    /\ pcB = "sleep" => ~HasRunningTarget(shownB, instance_id)

\* The malformed responses the claim lists: the subprocess fails, the output
\* is no JSON, the JSON is no array of objects, a record lacks id or
\* cur_state, the target id is absent.
MalformedListed(out, target) ==
    \/ out.t # "array"
    \/ \E i \in 1..Len(out.v) :
        \/ out.v[i].t # "object"
        \/ "id" \notin DOMAIN out.v[i].v
        \/ "cur_state" \notin DOMAIN out.v[i].v
    \/ ~\E i \in 1..Len(out.v) : IsTarget(out.v[i], target)

\* C5 as stated: wait_for_gpu.py never ends on a state other than "running",
\* and every cycle with a malformed response reports "unknown" and goes on.
C5_Original ==
    /\ Stopped(pcA) => stateA = "running"
    /\ (pcA # "poll" /\ MalformedListed(shownA, TargetA)) =>
            /\ stateA = "unknown"
            /\ outA = <<<<"Current state", "unknown">>>>
            /\ pcA = "sleep"

IsSshLine(line) == line[1] = "SSH"
FieldText(d, k) == IF k \in DOMAIN d THEN d[k] ELSE "None"

\* C9 as stated: when wait_for_gpu_2.py ends, it has printed the ssh_host and ssh_port
\* of the record that ended it (the first record with the target id of the
\* response of that poll, in state "running"); a poll that does not end the
\* loop prints no SSH line.
C9_SshOfTerminatingRecord ==
    /\ Stopped(pcB) =>
        \E i \in 1..Len(shownB.v) :
            /\ IsRunningTarget(shownB.v[i], instance_id)
            /\ \A j \in 1..(i - 1) : ~IsTarget(shownB.v[j], instance_id)
            /\ \E n \in 1..Len(outB) :
                /\ outB[n][1] = "SSH"
                /\ outB[n][2] = FieldText(shownB.v[i].v, "ssh_host")
                /\ outB[n][3] = (IF "ssh_port" \in DOMAIN shownB.v[i].v
                                 THEN ToString(shownB.v[i].v.ssh_port) ELSE "None")
            /\ Cardinality({n \in 1..Len(outB) : IsSshLine(outB[n])}) = 1
    /\ ~Stopped(pcB) => \A n \in 1..Len(outB) : ~IsSshLine(outB[n])

\* The record the lookup of a poll returns is element i: it has the target
\* id, and every element in front of it is an object with another id.
ObservedAt(out, target, i) ==
    /\ out.t = "array"
    /\ i \in 1..Len(out.v)
    /\ IsTarget(out.v[i], target)
    /\ \A j \in 1..(i - 1) :
        /\ out.v[j].t = "object"
        /\ "id" \in DOMAIN out.v[j].v
        /\ out.v[j].v.id # target
ObservesRunning(out, target) ==
    out.t = "array" /\ \E i \in 1..Len(out.v) : ObservedAt(out, target, i) /\ IsRunningTarget(out.v[i], target)
NotFoundLine == <<"Instance not found in list yet...">>

\* C11 as stated: every cycle of wait_for_gpu_2.py that does not observe the
\* target in state "running" reports "not found yet" and goes on to poll.
C11_Original ==
    (pcB # "poll" /\ ~ObservesRunning(shownB, instance_id))
        => (pcB = "sleep" /\ outB = <<NotFoundLine>>)

HasId(x) == "id" \in DOMAIN x
OfferIds == {d.id : d \in {x \in OfferDicts : HasId(x)}}
AttemptsWithId(k) ==
    Cardinality({i \in 1..Len(attempts) : HasId(attempts[i]) /\ attempts[i].id = k})
ListedWithId(k) ==
    Cardinality({i \in 1..Len(found.v) :
        found.v[i].t = "object" /\ HasId(found.v[i].v) /\ found.v[i].v.id = k})

\* C12 as stated: no two create calls of a run carry the same offer id.
C12_Original ==
    \A i, j \in 1..Len(attempts) :
        (i < j /\ HasId(attempts[i]) /\ HasId(attempts[j]))
            => attempts[i].id # attempts[j].id

\* C12, amended: an offer id is passed to create at most as often as the
\* search result lists it, and there are never more calls than listed offers.
C12_OncePerListedOffer ==
    attempts # <<>> =>
        /\ Len(attempts) <= Len(found.v)
        /\ \A k \in OfferIds : AttemptsWithId(k) <= ListedWithId(k)

\* Offer 1 is listed twice and both listings are tried.
C12_Witness ==
    /\ found = JArray(<<JObject([id |-> 1, dph |-> Num(1000)]),
                        JObject([id |-> 1, dph |-> Num(3)])>>)
    /\ attempts = <<[id |-> 1, dph |-> Num(3)], [id |-> 1, dph |-> Num(1000)]>>
    /\ status = "exit1"
\* C13: the search subprocess is started once per run and never again; when
\* its output is not parseable the run has no offers, makes no create call
\* and can only end with exit 1.
C13_SearchOnceNoRetry ==
    /\ searches <= 1
    /\ pc # "search" => searches = 1
    /\ searchOut.t = "text" =>
        /\ found = EmptyList
        /\ attempts = <<>>
        /\ outcomes = <<>>
        /\ Terminated => status = "exit1"

C13_Witness ==
    /\ searchOut = JText
    /\ searches = 1
    /\ attempts = <<>>
    /\ status = "exit1"
LastEv(ev) == IF ev = <<>> THEN "none" ELSE ev[Len(ev)]
PrevEv(ev) == IF Len(ev) < 2 THEN "none" ELSE ev[1]
\* Two calls never follow each other without a delay between them, and a
\* delay is taken only right after a call.
Throttled(ev, call) ==
    /\ ~(PrevEv(ev) = call /\ LastEv(ev) = call)
    /\ LastEv(ev) = "sleep" => PrevEv(ev) = call

\* C14: in each script two consecutive throttled calls (create instance in
\* the rental flow, show instances in the pollers) are separated by a delay:
\* the delay is the next step after a failed attempt or a poll that does not
\* end the script, and no delay follows a successful attempt or the last
\* poll (the poll that breaks the loop, or the one whose print raises).
C14_CallsSeparatedBySleep ==
    /\ Throttled(evR, "create")
    /\ Throttled(evA, "show")
    /\ Throttled(evB, "show")
    /\ (LastEv(evR) = "create" /\ ReportsFailure(outcomes[Len(outcomes)])) => pc = "sleep"
    /\ (LastEv(evR) = "create" /\ ReportsSuccess(outcomes[Len(outcomes)])) => pc = "done"
    /\ LastEv(evR) = "sleep" => ReportsFailure(outcomes[Len(outcomes)])
    /\ LastEv(evA) = "show" =>
            pcA = (IF Unprintable(stateA) THEN "raised"
                   ELSE IF stateA = "running" THEN "done" ELSE "sleep")
    /\ LastEv(evA) = "sleep" => (pcA = "poll" /\ stateA # "running")
    /\ LastEv(evB) = "show" => pcB \in {"done", "raised", "sleep"}
    /\ LastEv(evB) = "sleep" => pcB = "poll"
    /\ Stopped(pcA) => LastEv(evA) = "show"
    /\ Stopped(pcB) => LastEv(evB) = "show"

\* A second attempt, with the delay between it and the first.
C14_Witness ==
    /\ Len(attempts) = 2
    /\ evR = <<"sleep", "create">>
    /\ ReportsFailure(outcomes[1])
\* The number of steps main can still take once the offers are known: two
\* per offer that is left (the attempt and the delay) and one to leave.
StepsLeft ==
    IF pc = "done" THEN 0
    ELSE IF pc = "sort" THEN (IF offers.t = "array" THEN 2 * Len(offers.v) + 2 ELSE 1)
    ELSE IF pc = "loop" THEN 2 * (Len(offers.v) - idx + 1) + 1
    ELSE 2 * (Len(offers.v) - idx + 1)

\* The run waits in subprocess.run for the search (line 16) or for a create
\* call (line 40).
InCall ==
    \/ pc = "search"
    \/ pc = "loop" /\ idx <= Len(offers.v)

\* Every external CLI call returns (or raises): the run does not wait in a
\* call for ever.
CallsReturn == []<>(~InCall)

\* C15 as stated: provided every external CLI call returns, the rental flow
\* terminates.  After the search every step lowers the number of steps that
\* are left, which is never negative, and a step is possible exactly until
\* the final status; the flow makes at most one create call per listed
\* offer, never goes back to the search or to an earlier offer, and for a
\* list of offers with every CLI call returning the final status is exit 0
\* or exit 1.
C15_RentalTerminates ==
    /\ CallsReturn => <>(status # "run")
    /\ [](pc # "search" => StepsLeft >= 0)
    /\ [](status = "run" <=> ENABLED Next)
    /\ [](found.t = "array" => Len(attempts) <= Len(found.v))
    /\ []((/\ Terminated
           /\ IsOfferList(found)
           /\ \A i \in 1..Len(outcomes) : outcomes[i].t = "ran")
            => status \in {"exit0", "exit1"})
    /\ [][/\ pc # "search" => StepsLeft' < StepsLeft
          /\ pc' # "search"
          /\ idx' >= idx]_vars

\* C16: given the same target and the same sequence of responses,
\* wait_for_gpu.py and wait_for_gpu_2.py end at the same poll or both go on:
\* after every poll on the same response both have ended (by break or by a
\* print that raises) or both sleep, and each leaves its loop by break only
\* when the first record the lookup reaches with the target id is running.
C16_SameStop ==
    /\ pcA = "poll" <=> pcB = "poll"
    /\ pcA = "sleep" <=> pcB = "sleep"
    /\ Stopped(pcA) <=> Stopped(pcB)
    /\ pcA # "poll" => shownB = Retarget(shownA)
    /\ pcA = "done" <=> ObservesRunning(shownA, TargetA)
    /\ pcB = "done" => ObservesRunning(shownB, instance_id)
    /\ (pcB # "poll" /\ ObservesRunning(shownB, instance_id)) => Stopped(pcB)

\* Both end at a later poll than the first, on a response with two records
\* of the target id of which the first is running.
C16_Witness ==
    /\ pcA = "done"
    /\ pcB = "done"
    /\ evA = <<"sleep", "show">>
    /\ evB = <<"sleep", "show">>
    /\ shownA = JArray(<<JObject([id |-> TargetA, cur_state |-> "running"]),
                         JObject([id |-> TargetA])>>)
    /\ outA # outB

====
